---- MODULE Spec2Model ----
(***************************************************************************)
(* A model of the bar-chart-race tools of D.A.V.E:                         *)
(*   src/barplot.py                main(): builds keyed frames from the    *)
(*                                 data file with ColorTracker, ranks      *)
(*                                 them, fills in the dense frames, and    *)
(*                                 draws them with MatAnimation;           *)
(*   src/gather_member_keyframes.py  Admin.bar_fetch: tallies messages per *)
(*                                 day and records the tracked users.      *)
(*                                                                         *)
(* Python values are modelled as follows.                                  *)
(*   - A dict is a sequence of [k, v] pairs in insertion order (Python     *)
(*     dicts keep insertion order; .values() and .items() follow it).      *)
(*   - Lists are sequences; Python index n is TLA+ index n + 1.            *)
(*   - A Keyframe object is a record [name, count, color, y_position].     *)
(*     A list that holds references to Keyframes of the current row holds  *)
(*     their index in `keyframes`.                                         *)
(*   - Colours are the indices 1..col_count of the colormap entries.       *)
(*   - Fractions: the only non-integers of main() are multiples of         *)
(*     1/frames_per_keyed_frame, so the count of a Keyframe of a dense     *)
(*     frame is carried as its numerator over frames_per_keyed_frame, and  *)
(*     fraction_between_keyframes as the numerator i % frames_per_keyed_   *)
(*     frame (exact arithmetic; float rounding is not modelled).           *)
(***************************************************************************)
EXTENDS Integers, Sequences, FiniteSets, TLC

VARIABLES
    pc,                 \* position of main(): "read", "get_color", "rank", "fill", "animate", "saved", "halted" ("idle": not running)
    raised,             \* the uncaught exception that ended main(), "" when none
    dp_tracked_number,  \* file_metadata[1]
    color_tracker,      \* the ColorTracker object
    keyframes,          \* the Keyframes of the row being processed
    kf_i,               \* position of `for keyframe in keyframes` (get_color loop)
    keyed_frames,       \* list of AnimationFrame, one per data row
    frames,             \* the dense list of AnimationFrame
    i,                  \* position of `for i in range(len(frames))`
    dp_display_number,  \* file_metadata[0]
    frame_num,          \* the frame FuncAnimation asks animate_frame for next, None before the animation
    drawn,              \* what animate_frame has drawn, one entry per call
    bf_pc,              \* position of bar_fetch: "tally", "write", "done" ("idle": not running)
    c,                  \* bar_fetch: Counter of messages per user
    tracked_users,      \* bar_fetch: set of users who broke into the top
    bf_keyed_frames,    \* bar_fetch: list of (date, counter copy)
    csv                 \* bar_fetch: the lines written to output_path

vars == <<pc, raised, dp_tracked_number, color_tracker, keyframes, kf_i,
          keyed_frames, frames, i, dp_display_number, frame_num, drawn,
          bf_pc, c, tracked_users, bf_keyed_frames, csv>>

anim_vars == <<dp_display_number, frame_num, drawn>>

main_vars == <<pc, raised, dp_tracked_number, color_tracker, keyframes, kf_i,
               keyed_frames, frames, i, dp_display_number, frame_num, drawn>>

fetch_vars == <<bf_pc, c, tracked_users, bf_keyed_frames, csv>>

----------------------------------------------------------------------------
\* Bounds of the model.

\* Entity names are 1..NumNames.
NumNames == 3

\* Message counts of a data row are 0..MaxCount.
MaxCount == 1

\* Longest data file (rows) read by main() under Spec.
MaxKeyframes == 2

\* Largest dp_tracked_number in the file's first line under Spec (from 1).
MaxTracked == 2

\* Longest data file (rows) read by main() under SpecColor.
MaxColorFrames == 2

\* Most users in a row under SpecColor.
MaxColorRow == 2

\* Largest dp_tracked_number in the file's first line under SpecColor (from 0).
MaxColorTracked == 1

\* Longest data file (rows) read by main() under SpecSpare.
MaxSpareFrames == 3

\* Largest dp_tracked_number in the file's first line under SpecSpare (from 1).
MaxSpareTracked == 2

\* Distance between keyed frames (60 in the source, scaled down).
frames_per_keyed_frame == 2

\* FuncAnimation(frames=60*5) (300 in the source, scaled down).
animation_frames == 3

\* Python's None, for a Keyframe's unset color and y_position and a frame's title.
None == -1

Names == 1..NumNames

Counts == 0..MaxCount

----------------------------------------------------------------------------
\* Python dict, as a sequence of [k, v] pairs in insertion order.

Range(s) == {s[n] : n \in 1..Len(s)}

\* k in d
DictHas(d, k) == \E n \in 1..Len(d) : d[n].k = k

\* d[k]
DictGet(d, k) == d[CHOOSE n \in 1..Len(d) : d[n].k = k].v

\* d after d.pop(k)
DictPop(d, k) == SelectSeq(d, LAMBDA e : e.k # k)

\* d after d[k] = v: an existing key keeps its place, a new key goes last
DictSet(d, k, v) ==
    IF DictHas(d, k)
    THEN [n \in 1..Len(d) |-> IF d[n].k = k THEN [k |-> k, v |-> v] ELSE d[n]]
    ELSE Append(d, [k |-> k, v |-> v])

\* list(d.values())
DictValues(d) == [n \in 1..Len(d) |-> d[n].v]

\* set(d.keys())
DictKeys(d) == {d[n].k : n \in 1..Len(d)}

----------------------------------------------------------------------------
\* Keyframe, AnimationFrame

\* Keyframe(name, count)
Keyframe(name, count) ==
    [name |-> name, count |-> count, color |-> None, y_position |-> None]

\* Keyframe.__lt__
lt(a, b) == a.count < b.count

\* AnimationFrame(title)
AnimationFrame(title) == [title |-> title, keyframes |-> <<>>]

----------------------------------------------------------------------------
\* ColorTracker

\* ColorTracker(colors)
ColorTrackerInit(colors) ==
    [unreserved_colors          |-> colors,
     reserved_colors_last_frame |-> <<>>,
     reserved_colors_this_frame |-> <<>>,
     data_points_awaiting_color |-> <<>>]

\* get_color with the pop forgotten: the colour is read, not taken.
get_color_no_pop(self, kfs, n) ==
    LET dp == kfs[n] IN
    IF DictHas(self.reserved_colors_last_frame, dp.name)
    THEN LET col == DictGet(self.reserved_colors_last_frame, dp.name) IN
         [self |-> [self EXCEPT
                      !.reserved_colors_this_frame = DictSet(@, dp.name, col)],
          keyframes |-> [kfs EXCEPT ![n].color = col]]
    ELSE [self |-> [self EXCEPT !.data_points_awaiting_color = Append(@, n)],
          keyframes |-> kfs]

\* get_color that never looks at last frame: every data point waits in line.
get_color_always_wait(self, kfs, n) ==
    [self |-> [self EXCEPT !.data_points_awaiting_color = Append(@, n)],
     keyframes |-> kfs]

\* ColorTracker.get_color(dp), dp == kfs[n]. Gives the tracker and the row's
\* Keyframes afterwards.
get_color(self, kfs, n) ==
    LET dp == kfs[n] IN
    IF DictHas(self.reserved_colors_last_frame, dp.name)
    THEN LET col == DictGet(self.reserved_colors_last_frame, dp.name) IN
         [self |-> [self EXCEPT
                      !.reserved_colors_last_frame = DictPop(@, dp.name),
                      !.reserved_colors_this_frame = DictSet(@, dp.name, col)],
          keyframes |-> [kfs EXCEPT ![n].color = col]]
    ELSE [self |-> [self EXCEPT !.data_points_awaiting_color = Append(@, n)],
          keyframes |-> kfs]

\* The hand-out loop that stops quietly when the colours run out.
RECURSIVE HandOutTruncating(_, _, _, _)
HandOutTruncating(pool, this, kfs, queue) ==
    IF queue = <<>> \/ pool = <<>>
    THEN [pool |-> pool, this |-> this, keyframes |-> kfs, raised |-> FALSE]
    ELSE LET dp  == Head(queue)
             col == Head(pool)
         IN HandOutTruncating(Tail(pool), DictSet(this, kfs[dp].name, col),
                              [kfs EXCEPT ![dp].color = col], Tail(queue))

\* The hand-out loop taking unreserved_colors.pop(), the colour at the back.
RECURSIVE HandOutFromBack(_, _, _, _)
HandOutFromBack(pool, this, kfs, queue) ==
    IF queue = <<>>
    THEN [pool |-> pool, this |-> this, keyframes |-> kfs, raised |-> FALSE]
    ELSE IF pool = <<>>
    THEN [pool |-> pool, this |-> this, keyframes |-> kfs, raised |-> TRUE]
    ELSE LET dp  == Head(queue)
             col == pool[Len(pool)]
         IN HandOutFromBack(SubSeq(pool, 1, Len(pool) - 1),
                            DictSet(this, kfs[dp].name, col),
                            [kfs EXCEPT ![dp].color = col], Tail(queue))

\* The loop of finish_frame: `for dp in self.data_points_awaiting_color`,
\* each taking unreserved_colors.pop(0); pop(0) of an empty list raises IndexError.
RECURSIVE HandOut(_, _, _, _)
HandOut(pool, this, kfs, queue) ==
    IF queue = <<>>
    THEN [pool |-> pool, this |-> this, keyframes |-> kfs, raised |-> FALSE]
    ELSE IF pool = <<>>
    THEN [pool |-> pool, this |-> this, keyframes |-> kfs, raised |-> TRUE]
    ELSE LET dp  == Head(queue)
             col == Head(pool)
         IN HandOut(Tail(pool), DictSet(this, kfs[dp].name, col),
                    [kfs EXCEPT ![dp].color = col], Tail(queue))

\* finish_frame that does not put the remaining colours back.
finish_frame_no_return(self, kfs) ==
    LET h == HandOut(self.unreserved_colors, self.reserved_colors_this_frame,
                     kfs, self.data_points_awaiting_color)
    IN IF h.raised
       THEN [self |-> [self EXCEPT !.unreserved_colors = h.pool,
                                   !.reserved_colors_this_frame = h.this],
             keyframes |-> h.keyframes, raised |-> TRUE]
       ELSE [self |-> [unreserved_colors          |-> h.pool,
                       reserved_colors_last_frame |-> h.this,
                       reserved_colors_this_frame |-> <<>>,
                       data_points_awaiting_color |-> <<>>],
             keyframes |-> h.keyframes, raised |-> FALSE]

\* ColorTracker.finish_frame(). Gives the tracker and the row's Keyframes
\* afterwards, and whether pop(0) raised; when it raises, the statements
\* after the loop have not run.
finish_frame(self, kfs) ==
    LET pool == self.unreserved_colors \o DictValues(self.reserved_colors_last_frame)
        h    == HandOut(pool, self.reserved_colors_this_frame, kfs,
                        self.data_points_awaiting_color)
    IN IF h.raised
       THEN [self |-> [self EXCEPT !.unreserved_colors = h.pool,
                                   !.reserved_colors_this_frame = h.this],
             keyframes |-> h.keyframes, raised |-> TRUE]
       ELSE [self |-> [unreserved_colors          |-> h.pool,
                       reserved_colors_last_frame |-> h.this,
                       reserved_colors_this_frame |-> <<>>,
                       data_points_awaiting_color |-> <<>>],
             keyframes |-> h.keyframes, raised |-> FALSE]

----------------------------------------------------------------------------
\* Helpers of main()

\* lerp with the terms swapped.
lerp_swapped(a, b, t) == b * frames_per_keyed_frame + (a - b) * t

\* lerp(a, b, t) == a + (b - a) * t, for t the numerator of a fraction over
\* frames_per_keyed_frame; the result is the numerator over frames_per_keyed_frame.
lerp(a, b, t) == a * frames_per_keyed_frame + (b - a) * t

\* The rows of at most `longest` users a data line can hold: users with
\* distinct names, each with a count.
RowsOf(counts, longest) ==
    {r \in UNION {[1..n -> [ident : Names, count : counts]] : n \in 0..longest} :
        \A a, b \in 1..Len(r) : a # b => r[a].ident # r[b].ident}

Rows == RowsOf(Counts, NumNames)

\* Rows of at most MaxColorRow users in which every user has count 1.
NameRows == RowsOf({1}, MaxColorRow)

\* parse_row_data: the Keyframes of a row (the date is the row's number in the file).
parse_row_data(row) == [n \in 1..Len(row) |-> Keyframe(row[n].ident, row[n].count)]

\* sorted(keyframes) without reverse=True: ascending, stable.
RECURSIVE sorted_ascending(_)
sorted_ascending(s) ==
    IF s = <<>> THEN <<>>
    ELSE LET rest == sorted_ascending(SubSeq(s, 1, Len(s) - 1))
             x    == s[Len(s)]
             \* x goes after every element that is not greater than x
             p    == Cardinality({n \in 1..Len(rest) : ~ lt(x, rest[n])})
         IN SubSeq(rest, 1, p) \o <<x>> \o SubSeq(rest, p + 1, Len(rest))

\* sorted(keyframes)[::-1]: descending, but elements that compare equal come
\* out in the reverse of their input order.
sorted_then_reversed(s) ==
    LET up == sorted_ascending(s)
    IN [n \in 1..Len(up) |-> up[Len(up) + 1 - n]]

\* sorted(keyframes, reverse=True): descending by __lt__, stable (elements that
\* compare equal keep their input order).
RECURSIVE sorted_reverse(_)
sorted_reverse(s) ==
    IF s = <<>> THEN <<>>
    ELSE LET rest == sorted_reverse(SubSeq(s, 1, Len(s) - 1))
             x    == s[Len(s)]
             \* x goes after every element that is not less than x
             p    == Cardinality({n \in 1..Len(rest) : ~ lt(rest[n], x)})
         IN SubSeq(rest, 1, p) \o <<x>> \o SubSeq(rest, p + 1, Len(rest))

\* len(frames) one interval too long.
frame_count_extra(n) == (n + 1) * frames_per_keyed_frame

\* len(keyed_frames) * frames_per_keyed_frame
frame_count(n) == n * frames_per_keyed_frame

\* fraction_between_keyframes counted from 1.
fraction_from_one(n) == (n % frames_per_keyed_frame) + 1

\* fraction_between_keyframes of frame n (numerator over frames_per_keyed_frame)
fraction_between_keyframes(n) == n % frames_per_keyed_frame

\* previous_keyed_frame_i of frame n
previous_keyed_frame_i(n) == n \div frames_per_keyed_frame

\* next_keyed_frame_i of frame n
next_keyed_frame_i(n) == (n \div frames_per_keyed_frame) + 1

\* next_keyed_frame: keyed_frames[next_i] if next_i < len(keyed_frames) else previous
next_keyed_frame(kfs, n) ==
    IF next_keyed_frame_i(n) < Len(kfs)
    THEN kfs[next_keyed_frame_i(n) + 1]
    ELSE kfs[previous_keyed_frame_i(n) + 1]

\* The loop that leaves out a Keyframe whose interpolated count is 0.
RECURSIVE InterpolateSkippingZero(_, _, _, _)
InterpolateSkippingZero(items, next, t, acc) ==
    IF items = <<>> THEN acc
    ELSE LET k        == Head(items).k
             keyframe == Head(items).v
         IN IF ~ DictHas(next, k)
            THEN InterpolateSkippingZero(Tail(items), next, t, acc)
            ELSE LET next_keyframe == DictGet(next, k)
                     this_keyframe ==
                         [name       |-> keyframe.name,
                          count      |-> lerp(keyframe.count, next_keyframe.count, t),
                          color      |-> keyframe.color,
                          y_position |-> keyframe.y_position]
                 IN IF this_keyframe.count = 0
                    THEN InterpolateSkippingZero(Tail(items), next, t, acc)
                    ELSE InterpolateSkippingZero(Tail(items), next, t,
                             DictSet(acc, keyframe.name, this_keyframe))

\* The loop with this_frame.keyframes as a list that every visit appends to.
RECURSIVE InterpolateAppending(_, _, _, _)
InterpolateAppending(items, next, t, acc) ==
    IF items = <<>> THEN acc
    ELSE LET k        == Head(items).k
             keyframe == Head(items).v
         IN IF ~ DictHas(next, k)
            THEN InterpolateAppending(Tail(items), next, t, acc)
            ELSE LET next_keyframe == DictGet(next, k)
                     this_keyframe ==
                         [name       |-> keyframe.name,
                          count      |-> lerp(keyframe.count, next_keyframe.count, t),
                          color      |-> keyframe.color,
                          y_position |-> keyframe.y_position]
                 IN InterpolateAppending(Tail(items), next, t,
                        Append(acc, [k |-> keyframe.name, v |-> this_keyframe]))

\* The loop `for k, keyframe in previous_keyed_frame.keyframes.items()`:
\* items are the entries of previous still to visit, acc is this_frame.keyframes.
RECURSIVE Interpolate(_, _, _, _)
Interpolate(items, next, t, acc) ==
    IF items = <<>> THEN acc
    ELSE LET k        == Head(items).k
             keyframe == Head(items).v
         IN IF ~ DictHas(next, k)
            THEN Interpolate(Tail(items), next, t, acc)
            ELSE LET next_keyframe == DictGet(next, k)
                     this_keyframe ==
                         [name       |-> keyframe.name,
                          count      |-> lerp(keyframe.count, next_keyframe.count, t),
                          color      |-> keyframe.color,
                          y_position |-> keyframe.y_position]
                 IN Interpolate(Tail(items), next, t,
                                DictSet(acc, keyframe.name, this_keyframe))

----------------------------------------------------------------------------
\* MatAnimation of barplot.py

\* round(count) of a count carried as numerator over frames_per_keyed_frame
\* (Python rounds a half to the even neighbour)
round(count) ==
    LET q == count \div frames_per_keyed_frame
        r == count % frames_per_keyed_frame
    IN IF 2 * r < frames_per_keyed_frame THEN q
       ELSE IF 2 * r > frames_per_keyed_frame THEN q + 1
       ELSE IF q % 2 = 0 THEN q ELSE q + 1

\* MatAnimation.animate_frame(frame_num), for a frame_num within self.frames:
\* what is on the axes when it returns. barh gets one bar per Keyframe of the
\* frame; text is called for a Keyframe when
\* self.bars_to_display > keyframe.y_position > 0, at x = count + 3 (carried
\* as numerator, like the count). ylim is carried in halves.
animate_frame(bars_to_display, self_frames, n) ==
    LET frame == self_frames[n + 1]
        kfs   == DictValues(frame.keyframes)
        Labelled(keyframe) ==
            bars_to_display > keyframe.y_position /\ keyframe.y_position > 0
        texts == SelectSeq(kfs, Labelled)
    IN [positions |-> [m \in 1..Len(kfs) |-> kfs[m].y_position],
        bar_sizes |-> [m \in 1..Len(kfs) |-> kfs[m].count],
        cols      |-> [m \in 1..Len(kfs) |-> kfs[m].color],
        labels    |-> [m \in 1..Len(kfs) |-> kfs[m].name],
        texts     |-> [m \in 1..Len(texts) |->
                          [x |-> texts[m].count + 3 * frames_per_keyed_frame,
                           y |-> texts[m].y_position,
                           s |-> round(texts[m].count)]],
        ylim      |-> <<2 * bars_to_display - 1, -1>>]

----------------------------------------------------------------------------
\* main() of barplot.py

\* col_count = dp_tracked_number + 1
col_count == dp_tracked_number + 1

\* cols: the col_count entries of the colormap, as a list
cols == [n \in 1..col_count |-> n]

\* The state when main() has read the first line of the data file, which
\* gives one of the pairs of `metadata` as dp_display_number and
\* dp_tracked_number, and constructed the ColorTracker with the col_count
\* colours.
InitMain(metadata) ==
    /\ pc = "read"
    /\ raised = ""
    /\ \E file_metadata \in metadata :
           /\ dp_display_number = file_metadata[1]
           /\ dp_tracked_number = file_metadata[2]
    /\ frame_num = None
    /\ drawn = <<>>
    /\ color_tracker = ColorTrackerInit(cols)
    /\ keyframes = <<>>
    /\ kf_i = 1
    /\ keyed_frames = <<>>
    /\ frames = <<>>
    /\ i = 0

\* `while data_line:` with a line read: parse_row_data.
ReadRow(rows, max) ==
    /\ pc = "read"
    /\ Len(keyed_frames) < max
    /\ \E row \in rows : keyframes' = parse_row_data(row)
    /\ kf_i' = 1
    /\ pc' = "get_color"
    /\ UNCHANGED <<raised, dp_tracked_number, color_tracker, keyed_frames, frames, i>>
    /\ UNCHANGED anim_vars
    /\ UNCHANGED fetch_vars

\* One turn of `for keyframe in keyframes: color_tracker.get_color(keyframe)`.
GetColor ==
    /\ pc = "get_color"
    /\ kf_i <= Len(keyframes)
    /\ LET r == get_color(color_tracker, keyframes, kf_i) IN
         /\ color_tracker' = r.self
         /\ keyframes' = r.keyframes
    /\ kf_i' = kf_i + 1
    /\ UNCHANGED <<pc, raised, dp_tracked_number, keyed_frames, frames, i>>
    /\ UNCHANGED anim_vars
    /\ UNCHANGED fetch_vars

\* color_tracker.finish_frame(); an IndexError is not caught and ends main().
FinishFrame ==
    /\ pc = "get_color"
    /\ kf_i > Len(keyframes)
    /\ LET r == finish_frame(color_tracker, keyframes) IN
         /\ color_tracker' = r.self
         /\ keyframes' = r.keyframes
         /\ pc' = IF r.raised THEN "halted" ELSE "rank"
         /\ raised' = IF r.raised THEN "IndexError" ELSE raised
    /\ UNCHANGED <<dp_tracked_number, kf_i, keyed_frames, frames, i>>
    /\ UNCHANGED anim_vars
    /\ UNCHANGED fetch_vars

\* Calculate ranking of data, save all keyframes to a frame, append the frame.
Rank ==
    /\ pc = "rank"
    /\ LET s      == sorted_reverse(keyframes)
           ranked == [n \in 1..Len(s) |-> [s[n] EXCEPT !.y_position = n - 1]]
           RECURSIVE Save(_, _)
           Save(todo, d) ==
               IF todo = <<>> THEN d
               ELSE Save(Tail(todo), DictSet(d, Head(todo).name, Head(todo)))
           frame  == [AnimationFrame(Len(keyed_frames) + 1) EXCEPT
                          !.keyframes = Save(ranked, <<>>)]
       IN /\ keyframes' = ranked
          /\ keyed_frames' = Append(keyed_frames, frame)
    /\ pc' = "read"
    /\ UNCHANGED <<raised, dp_tracked_number, color_tracker, kf_i, frames, i>>
    /\ UNCHANGED anim_vars
    /\ UNCHANGED fetch_vars

\* `while data_line:` at the end of the file; frames = [AnimationFrame() ...].
EndOfFile ==
    /\ pc = "read"
    /\ frames' = [n \in 1..frame_count(Len(keyed_frames)) |-> AnimationFrame(None)]
    /\ i' = 0
    /\ pc' = "fill"
    /\ UNCHANGED <<raised, dp_tracked_number, color_tracker, keyframes, kf_i, keyed_frames>>
    /\ UNCHANGED anim_vars
    /\ UNCHANGED fetch_vars

\* The body of `for i in range(len(frames))` for an index n whose previous
\* keyed frame exists: this_frame.keyframes when the body is over.
this_frame_keyframes(kfs, fr, n) ==
    LET previous_keyed_frame == kfs[previous_keyed_frame_i(n) + 1]
        next                 == next_keyed_frame(kfs, n)
    IN Interpolate(previous_keyed_frame.keyframes, next.keyframes,
                   fraction_between_keyframes(n), fr[n + 1].keyframes)

\* One turn of `for i in range(len(frames))`. keyed_frames[previous_keyed_frame_i]
\* raises IndexError when the index is past the end.
FillFrame ==
    /\ pc = "fill"
    /\ i < Len(frames)
    /\ IF previous_keyed_frame_i(i) >= Len(keyed_frames)
       THEN /\ pc' = "halted"
            /\ raised' = "IndexError"
            /\ UNCHANGED <<frames, i>>
       ELSE /\ frames' = [frames EXCEPT
                              ![i + 1].keyframes = this_frame_keyframes(keyed_frames, frames, i)]
            /\ i' = i + 1
            /\ UNCHANGED <<pc, raised>>
    /\ UNCHANGED <<dp_tracked_number, color_tracker, keyframes, kf_i, keyed_frames>>
    /\ UNCHANGED anim_vars
    /\ UNCHANGED fetch_vars

\* The loop is over: animator = MatAnimation(ax, dp_display_number, frames),
\* and FuncAnimation starts at frame 0.
EndFill ==
    /\ pc = "fill"
    /\ i = Len(frames)
    /\ pc' = "animate"
    /\ frame_num' = 0
    /\ UNCHANGED <<raised, dp_tracked_number, color_tracker, keyframes, kf_i,
                   keyed_frames, frames, i, dp_display_number, drawn>>
    /\ UNCHANGED fetch_vars

\* One call of animator.animate_frame by FuncAnimation, which asks for the
\* frames 0 .. animation_frames - 1 in turn. self.frames[frame_num] raises
\* IndexError when frame_num is past the end; it is not caught and ends main().
AnimateFrame ==
    /\ pc = "animate"
    /\ frame_num < animation_frames
    /\ IF frame_num >= Len(frames)
       THEN /\ pc' = "halted"
            /\ raised' = "IndexError"
            /\ UNCHANGED <<frame_num, drawn>>
       ELSE /\ drawn' = Append(drawn,
                    [frame_num |-> frame_num,
                     axes      |-> animate_frame(dp_display_number, frames, frame_num)])
            /\ frame_num' = frame_num + 1
            /\ UNCHANGED <<pc, raised>>
    /\ UNCHANGED <<dp_tracked_number, color_tracker, keyframes, kf_i, keyed_frames,
                   frames, i, dp_display_number>>
    /\ UNCHANGED fetch_vars

\* FuncAnimation has asked for all its frames: anim.save returns.
EndAnimate ==
    /\ pc = "animate"
    /\ frame_num = animation_frames
    /\ pc' = "saved"
    /\ UNCHANGED <<raised, dp_tracked_number, color_tracker, keyframes, kf_i,
                   keyed_frames, frames, i>>
    /\ UNCHANGED anim_vars
    /\ UNCHANGED fetch_vars

----------------------------------------------------------------------------
\* Placeholder state of bar_fetch while main() runs.
FetchIdle ==
    /\ bf_pc = "idle"
    /\ c = <<>>
    /\ tracked_users = {}
    /\ bf_keyed_frames = <<>>
    /\ csv = <<>>

\* First lines of the data files under Spec: the tracked users are 1 to
\* MaxTracked, the displayed ones at most as many.
Metadata == {m \in (1..MaxTracked) \X (1..MaxTracked) : m[1] <= m[2]}

Init == InitMain(Metadata) /\ FetchIdle

Next ==
    \/ ReadRow(Rows, MaxKeyframes)
    \/ GetColor
    \/ FinishFrame
    \/ Rank
    \/ EndOfFile
    \/ FillFrame
    \/ EndFill
    \/ AnimateFrame
    \/ EndAnimate

\* main() of barplot.py on any data file of at most MaxKeyframes rows.
Spec == Init /\ [][Next]_vars

NextColor ==
    \/ ReadRow(NameRows, MaxColorFrames)
    \/ GetColor
    \/ FinishFrame
    \/ Rank
    \/ EndOfFile
    \/ FillFrame
    \/ EndFill

\* First lines of the data files under SpecColor: one user displayed.
ColorMetadata == {<<1, t>> : t \in 0..MaxColorTracked}

InitColor == InitMain(ColorMetadata) /\ FetchIdle

\* main() of barplot.py, up to the animation, on any data file of at most MaxColorFrames rows of at
\* most MaxColorRow users, in which every count is 1 (the counts have no part
\* in ColorTracker), the pool being of 1 to MaxColorTracked + 1 colours.
SpecColor == InitColor /\ [][NextColor]_vars

\* The body of `for i in range(len(frames))` run for any index of frames, in
\* any order and any number of times.
GenerateFrame ==
    /\ pc = "fill"
    /\ \E n \in 0..(Len(frames) - 1) :
           IF previous_keyed_frame_i(n) >= Len(keyed_frames)
           THEN /\ pc' = "halted"
                /\ raised' = "IndexError"
                /\ UNCHANGED frames
           ELSE /\ frames' = [frames EXCEPT
                                  ![n + 1].keyframes = this_frame_keyframes(keyed_frames, frames, n)]
                /\ UNCHANGED <<pc, raised>>
    /\ UNCHANGED <<dp_tracked_number, color_tracker, keyframes, kf_i, keyed_frames, i>>
    /\ UNCHANGED anim_vars
    /\ UNCHANGED fetch_vars

NextRegen ==
    \/ ReadRow(Rows, MaxKeyframes)
    \/ GetColor
    \/ FinishFrame
    \/ Rank
    \/ EndOfFile
    \/ GenerateFrame

\* First lines of the data files under SpecRegen: one user displayed.
RegenMetadata == {<<1, t>> : t \in 1..MaxTracked}

InitRegen == InitMain(RegenMetadata) /\ FetchIdle

\* main() of barplot.py up to the dense frames, on any data file of at most
\* MaxKeyframes rows, with the body of the fill loop applied to the indices of
\* frames in any order, any number of times each.
SpecRegen == InitRegen /\ [][NextRegen]_vars

\* Rows of at most dp_tracked_number users in which every user has count 1.
SpareRows == {r \in RowsOf({1}, MaxSpareTracked) : Len(r) <= dp_tracked_number}

NextSpare ==
    \/ ReadRow(SpareRows, MaxSpareFrames)
    \/ GetColor
    \/ FinishFrame
    \/ Rank
    \/ EndOfFile
    \/ FillFrame
    \/ EndFill

\* First lines of the data files under SpecSpare: one user displayed.
SpareMetadata == {<<1, t>> : t \in 1..MaxSpareTracked}

InitSpare == InitMain(SpareMetadata) /\ FetchIdle

\* main() of barplot.py, up to the animation, on any data file of at most
\* MaxSpareFrames rows that keeps to its first line: no row has more than
\* dp_tracked_number users (one fewer than the pool has colours). Every count
\* is 1.
SpecSpare == InitSpare /\ [][NextSpare]_vars

----------------------------------------------------------------------------
\* Admin.bar_fetch of gather_member_keyframes.py

\* top_users (10 in the source, scaled down): how many users will be displayed.
top_users == 2

\* Extra users the data storage policy of barplot.py keeps beyond the displayed
\* ones ("if we want the top 10 members, we'll keep track of the top 15":
\* 5 in the source, scaled down).
buffer == 1

\* `if len(keyed_frames) >= 60: break` (60 in the source, scaled down).
capture_limit == 3

\* Most messages one capture interval holds.
MaxMessages == 2

\* c[name] += 1 for every message of the interval, in order
RECURSIVE Tally(_, _)
Tally(counter, authors) ==
    IF authors = <<>> THEN counter
    ELSE LET a   == Head(authors)
             old == IF DictHas(counter, a) THEN DictGet(counter, a) ELSE 0
         IN Tally(DictSet(counter, a, old + 1), Tail(authors))

\* The items of a Counter sorted by count, highest first, equal counts in
\* insertion order (sorted(items, key=count, reverse=True)).
RECURSIVE ByCount(_)
ByCount(items) ==
    IF items = <<>> THEN <<>>
    ELSE LET rest == ByCount(SubSeq(items, 1, Len(items) - 1))
             x    == items[Len(items)]
             p    == Cardinality({n \in 1..Len(rest) : ~ (rest[n].v < x.v)})
         IN SubSeq(rest, 1, p) \o <<x>> \o SubSeq(rest, p + 1, Len(rest))

\* Counter.most_common(n)
most_common(counter, n) ==
    LET s == ByCount(counter) IN SubSeq(s, 1, IF n < Len(s) THEN n ELSE Len(s))

\* sorted(list(users)) for a set of names
RECURSIVE SortedList(_)
SortedList(users) ==
    IF users = {} THEN <<>>
    ELSE LET m == CHOOSE u \in users : \A w \in users : u <= w
         IN <<m>> \o SortedList(users \ {m})

\* State of main() while bar_fetch runs.
MainIdle ==
    /\ pc = "idle"
    /\ raised = ""
    /\ dp_tracked_number = 0
    /\ color_tracker = ColorTrackerInit(<<>>)
    /\ keyframes = <<>>
    /\ kf_i = 1
    /\ keyed_frames = <<>>
    /\ frames = <<>>
    /\ dp_display_number = 0
    /\ frame_num = None
    /\ drawn = <<>>
    /\ i = 0

\* The state before `while True`: the first message of the channel is counted.
InitFetch ==
    /\ MainIdle
    /\ bf_pc = "tally"
    /\ \E author \in Names : c = Tally(<<>>, <<author>>)
    /\ tracked_users = {}
    /\ bf_keyed_frames = <<>>
    /\ csv = <<>>

\* `if snowflake_time(start_snowflake) >= datetime.now(): break`
CaughtUp ==
    /\ bf_pc = "tally"
    /\ bf_pc' = "write"
    /\ UNCHANGED <<c, tracked_users, bf_keyed_frames, csv>>
    /\ UNCHANGED main_vars

\* One turn of `while True` that captures an interval: count its messages,
\* record the users in the top, record the counter and the date (the
\* interval's number), and leave the loop at the capture limit.
CaptureInterval ==
    /\ bf_pc = "tally"
    /\ \E authors \in UNION {[1..n -> Names] : n \in 0..MaxMessages} :
         LET counted      == Tally(c, authors)
             current_tops == most_common(counted, top_users)
         IN /\ c' = counted
            /\ tracked_users' = tracked_users \cup DictKeys(current_tops)
            /\ bf_keyed_frames' =
                   Append(bf_keyed_frames,
                          [date |-> Len(bf_keyed_frames) + 1, counter |-> counted])
    /\ bf_pc' = IF Len(bf_keyed_frames) + 1 >= capture_limit THEN "write" ELSE "tally"
    /\ UNCHANGED csv
    /\ UNCHANGED main_vars

\* Create the .csv file: the header, then one line per keyed frame with one
\* value per tracked user, 0 for a user the counter does not hold.
WriteCsv ==
    /\ bf_pc = "write"
    /\ LET users == SortedList(tracked_users)
           line(keyed_frame) ==
               <<keyed_frame.date>> \o
               [n \in 1..Len(users) |->
                   IF DictHas(keyed_frame.counter, users[n])
                   THEN DictGet(keyed_frame.counter, users[n]) ELSE 0]
       IN csv' = <<(<<"date">> \o users)>> \o
                 [k \in 1..Len(bf_keyed_frames) |-> line(bf_keyed_frames[k])]
    /\ bf_pc' = "done"
    /\ UNCHANGED <<c, tracked_users, bf_keyed_frames>>
    /\ UNCHANGED main_vars

NextFetch ==
    \/ CaughtUp
    \/ CaptureInterval
    \/ WriteCsv

\* bar_fetch on any channel history of at most capture_limit intervals.
SpecFetch == InitFetch /\ [][NextFetch]_vars

----------------------------------------------------------------------------
\* Properties of ColorTracker

\* The reservations the tracker holds, last frame's and this frame's.
Held == color_tracker.reserved_colors_last_frame \o
        color_tracker.reserved_colors_this_frame

\* The names of the entries of keyed frame k (k from 1).
KeyedNames(k) == DictKeys(keyed_frames[k].keyframes)

\* The Keyframe of a name in keyed frame k.
KeyedEntry(k, name) == DictGet(keyed_frames[k].keyframes, name)

\* C1: while main() has not been ended by an exception, at every point between
\* two operations of the tracker no two names held in reserved_colors_last_frame
\* or reserved_colors_this_frame have the same colour, and no held colour is in
\* unreserved_colors.
C1_ColorNonAliasing ==
    pc # "halted" =>
        /\ \A a, b \in 1..Len(Held) :
               Held[a].k # Held[b].k => Held[a].v # Held[b].v
        /\ \A a \in 1..Len(Held) :
               Held[a].v \notin Range(color_tracker.unreserved_colors)

\* C1 witness: an entity left after the first frame and the colour it held is
\* now held by an entity that entered in the second frame.
C1_Witness ==
    /\ Len(keyed_frames) >= 2
    /\ \E gone \in KeyedNames(1) \ KeyedNames(2), new \in KeyedNames(2) \ KeyedNames(1) :
           KeyedEntry(1, gone).color = KeyedEntry(2, new).color

\* C2: an entity in two consecutive keyed frames has a colour, the same one, in both.
C2_ColorStability ==
    \A k \in 1..(Len(keyed_frames) - 1) :
        \A name \in KeyedNames(k) \cap KeyedNames(k + 1) :
            /\ KeyedEntry(k, name).color # None
            /\ KeyedEntry(k + 1, name).color = KeyedEntry(k, name).color

\* C2 witness: an entity stays over two frames, in which another entity leaves
\* and a third one enters, and the one that stays does not hold the pool's
\* first colour.
C2_Witness ==
    /\ Len(keyed_frames) >= 2
    /\ \E name \in KeyedNames(1) \cap KeyedNames(2) : KeyedEntry(2, name).color # 1
    /\ KeyedNames(1) \ KeyedNames(2) # {}
    /\ KeyedNames(2) \ KeyedNames(1) # {}

\* C3: after every finish_frame that completes, the reservations of
\* reserved_colors_last_frame and the colours of unreserved_colors are together
\* the colours the tracker was constructed with, each exactly once.
C3_ColorConservation ==
    pc \notin {"get_color", "halted"} =>
        LET reserved == DictValues(color_tracker.reserved_colors_last_frame)
            all      == reserved \o color_tracker.unreserved_colors
        IN /\ Len(color_tracker.reserved_colors_last_frame)
                + Len(color_tracker.unreserved_colors) = col_count
           /\ \A col \in 1..col_count :
                  Cardinality({n \in 1..Len(all) : all[n] = col}) = 1

\* C3 witness: finish_frame has just completed a frame that an entity of the
\* frame before is not in, with reservations held and colours free.
C3_Witness ==
    /\ pc = "rank"
    /\ Len(keyed_frames) >= 1
    /\ KeyedNames(Len(keyed_frames)) \ {keyframes[n].name : n \in 1..Len(keyframes)} # {}
    /\ color_tracker.reserved_colors_last_frame # <<>>
    /\ color_tracker.unreserved_colors # <<>>

\* The Keyframes of the current row that have a colour.
Colored == {n \in 1..Len(keyframes) : keyframes[n].color # None}

\* C4: a frame that requests more entities than the pool has colours is never
\* completed: finish_frame ends main() with an IndexError; no two entities of a
\* frame are ever given the same colour, and a completed frame has a colour for
\* every entity.
C4_PoolExhaustionSignalled ==
    /\ Len(keyframes) > col_count => pc \in {"get_color", "halted"}
    /\ pc = "halted" => raised = "IndexError"
    /\ \A a, b \in Colored : a # b => keyframes[a].color # keyframes[b].color
    /\ pc = "rank" => Colored = 1..Len(keyframes)
    /\ \A k \in 1..Len(keyed_frames) :
           /\ Len(keyed_frames[k].keyframes) <= col_count
           /\ \A name \in KeyedNames(k) : KeyedEntry(k, name).color # None

\* C4 witness: after a completed frame, a frame of col_count + 1 entities has
\* ended main() with an IndexError, every colour handed out before it.
C4_Witness ==
    /\ pc = "halted"
    /\ raised = "IndexError"
    /\ Len(keyed_frames) >= 1
    /\ Len(keyframes) = col_count + 1
    /\ Cardinality(Colored) = col_count

----------------------------------------------------------------------------
\* Properties of the ranking

\* C5: the y_positions of every keyed frame are 0..n-1, each once, for the n
\* entities of its row, and an entity with a strictly higher count has a
\* strictly lower y_position.
C5_RanksArePermutation ==
    /\ \A k \in 1..Len(keyed_frames) :
           LET names == KeyedNames(k)
               n     == Cardinality(names)
           IN /\ \A r \in 0..(n - 1) :
                     Cardinality({e \in names : KeyedEntry(k, e).y_position = r}) = 1
              /\ \A e \in names : KeyedEntry(k, e).y_position \in 0..(n - 1)
              /\ \A e, f \in names :
                     KeyedEntry(k, e).count > KeyedEntry(k, f).count
                         => KeyedEntry(k, e).y_position < KeyedEntry(k, f).y_position
    /\ (pc = "read" /\ Len(keyed_frames) >= 1) =>
           /\ Len(keyed_frames[Len(keyed_frames)].keyframes) = Len(keyframes)
           /\ KeyedNames(Len(keyed_frames)) = {keyframes[n].name : n \in 1..Len(keyframes)}

\* C5 witness: a keyed frame of three entities, two of them with equal counts
\* and one with a different count.
C5_Witness ==
    \E k \in 1..Len(keyed_frames) :
        /\ Cardinality(KeyedNames(k)) = 3
        /\ \E e, f \in KeyedNames(k) :
               e # f /\ KeyedEntry(k, e).count = KeyedEntry(k, f).count
        /\ \E e, f \in KeyedNames(k) :
               KeyedEntry(k, e).count > KeyedEntry(k, f).count

----------------------------------------------------------------------------
\* Properties of the watch-list of bar_fetch

\* The count of a user in a counter (0 when the counter does not hold the user).
CountIn(counter, user) == IF DictHas(counter, user) THEN DictGet(counter, user) ELSE 0

\* The place of a user in a counter's insertion order.
PlaceIn(counter, user) == CHOOSE n \in 1..Len(counter) : counter[n].k = user

\* The rank of a user of a counter: the number of users ahead of it, by count
\* and, for equal counts, by who was counted first.
RankIn(counter, user) ==
    Cardinality({w \in DictKeys(counter) :
        \/ CountIn(counter, w) > CountIn(counter, user)
        \/ /\ CountIn(counter, w) = CountIn(counter, user)
           /\ PlaceIn(counter, w) < PlaceIn(counter, user)})

\* C6 (as claimed): every user within the top top_users + buffer ranks of a
\* snapshot captured so far is in tracked_users.
C6_WatchListHoldsTopAndBuffer ==
    \A k \in 1..Len(bf_keyed_frames) :
        \A user \in DictKeys(bf_keyed_frames[k].counter) :
            RankIn(bf_keyed_frames[k].counter, user) < top_users + buffer
                => user \in tracked_users

----------------------------------------------------------------------------
\* Properties of the dense frames

\* The dense frames filled so far, by Python index.
Filled ==
    IF pc \in {"fill", "animate", "saved"} \/ (pc = "halted" /\ frame_num # None)
    THEN 0..(i - 1) ELSE {}

\* The numbers (from 1) of the keyed frames before and after dense frame n.
K0(n) == (n \div frames_per_keyed_frame) + 1

K1(n) == IF K0(n) + 1 <= Len(keyed_frames) THEN K0(n) + 1 ELSE K0(n)

\* Progress of dense frame n, as the numerator over frames_per_keyed_frame.
Progress(n) == n % frames_per_keyed_frame

\* The names of the entries of dense frame n, and the Keyframe of a name in it.
DenseNames(n) == DictKeys(frames[n + 1].keyframes)

DenseEntry(n, name) == DictGet(frames[n + 1].keyframes, name)

\* The count of a name in keyed frame k, 0 when the frame does not hold it.
CountOrZero(k, name) ==
    IF name \in KeyedNames(k) THEN KeyedEntry(k, name).count ELSE 0

\* C7 (as claimed): in every dense frame every entity of K0 or of K1 appears,
\* with count count0 + (count1 - count0) * t, the count being 0 on the side
\* that does not hold the entity.
C7_AbsentSideCountsZero ==
    \A n \in Filled :
        \A name \in KeyedNames(K0(n)) \cup KeyedNames(K1(n)) :
            /\ name \in DenseNames(n)
            /\ DenseEntry(n, name).count =
                   frames_per_keyed_frame * CountOrZero(K0(n), name)
                   + (CountOrZero(K1(n), name) - CountOrZero(K0(n), name)) * Progress(n)

\* C7 (amended): the entries of every dense frame are the entities that are in
\* both K0 and K1, each with count count0 + (count1 - count0) * t; an entity
\* that only one of K0, K1 holds is not in the frame.
C7_CountLerpOfCommonEntities ==
    \A n \in Filled :
        /\ DenseNames(n) = KeyedNames(K0(n)) \cap KeyedNames(K1(n))
        /\ \A name \in DenseNames(n) :
               DenseEntry(n, name).count =
                   frames_per_keyed_frame * KeyedEntry(K0(n), name).count
                   + (KeyedEntry(K1(n), name).count - KeyedEntry(K0(n), name).count)
                     * Progress(n)

\* C7 witness: a dense frame strictly inside an interval in which one entity
\* changes its count, one leaves and one enters.
C7_Witness ==
    \E n \in Filled :
        /\ Progress(n) # 0
        /\ K1(n) # K0(n)
        /\ \E name \in DenseNames(n) :
               KeyedEntry(K0(n), name).count # KeyedEntry(K1(n), name).count
        /\ KeyedNames(K0(n)) \ KeyedNames(K1(n)) # {}
        /\ KeyedNames(K1(n)) \ KeyedNames(K0(n)) # {}

\* C8 (as claimed): strictly inside an interval, an entity whose rank differs
\* between K0 and K1 has a position strictly between the two ranks.
C8_PositionMovesBetweenRanks ==
    \A n \in Filled :
        Progress(n) # 0 =>
            \A name \in DenseNames(n) :
                LET p0 == KeyedEntry(K0(n), name).y_position
                    p1 == KeyedEntry(K1(n), name).y_position
                    p  == DenseEntry(n, name).y_position
                IN p0 # p1 => \/ (p0 < p /\ p < p1)
                              \/ (p1 < p /\ p < p0)

\* A Keyframe of keyed frame k as it is in a dense frame: the count as its
\* numerator over frames_per_keyed_frame.
AsDense(kf) == [kf EXCEPT !.count = frames_per_keyed_frame * kf.count]

\* C9 (as claimed): the dense frame at k * frames_per_interval has exactly the
\* entries of keyed frame k, each with its count, position and colour.
C9_BoundaryFrameIsKeyframe ==
    \A n \in Filled :
        Progress(n) = 0 =>
            /\ DenseNames(n) = KeyedNames(K0(n))
            /\ \A name \in DenseNames(n) :
                   DenseEntry(n, name) = AsDense(KeyedEntry(K0(n), name))

\* C9 (amended): the dense frame at k * frames_per_interval has exactly the
\* entries of keyed frame k whose entity is also in keyed frame k + 1 (every
\* entry of the last keyed frame), each with its count, position and colour
\* in keyed frame k.
C9_BoundaryFrameIsCommonPart ==
    \A n \in Filled :
        Progress(n) = 0 =>
            /\ DenseNames(n) = KeyedNames(K0(n)) \cap KeyedNames(K1(n))
            /\ \A name \in DenseNames(n) :
                   DenseEntry(n, name) = AsDense(KeyedEntry(K0(n), name))

\* C9 witness: the first dense frame of an interval whose first keyed frame
\* holds an entity that the second one does not, and an entity whose count and
\* rank differ in the second one.
C9_Witness ==
    \E n \in Filled :
        /\ Progress(n) = 0
        /\ K1(n) # K0(n)
        /\ KeyedNames(K0(n)) \ KeyedNames(K1(n)) # {}
        /\ \E name \in DenseNames(n) :
               /\ KeyedEntry(K0(n), name).count # KeyedEntry(K1(n), name).count
               /\ KeyedEntry(K0(n), name).y_position # KeyedEntry(K1(n), name).y_position

\* C10: there are len(keyed_frames) * frames_per_keyed_frame dense frames; the
\* previous keyed frame index of every one of them is a keyed frame's; filling
\* them raises nothing; and every frame of the last interval has the entries of
\* the last keyed frame, in their order, with their counts, positions and colours.
C10_FrameCountAndStaticHold ==
    /\ pc \in {"fill", "animate"} =>
           /\ Len(frames) = Len(keyed_frames) * frames_per_keyed_frame
           /\ \A n \in 0..(Len(frames) - 1) :
                  (n \div frames_per_keyed_frame) \in 0..(Len(keyed_frames) - 1)
           /\ raised = ""
    /\ (pc = "halted" /\ frame_num = None) => frames = <<>>
    /\ pc = "animate" => i = Len(frames)
    /\ \A n \in Filled :
           (n \div frames_per_keyed_frame) = Len(keyed_frames) - 1 =>
               LET last == keyed_frames[Len(keyed_frames)].keyframes IN
               frames[n + 1].keyframes =
                   [m \in 1..Len(last) |-> [k |-> last[m].k, v |-> AsDense(last[m].v)]]

\* C10 witness: both intervals of two keyed frames are filled, and an entity of
\* the last keyed frame has another count than in the first.
C10_Witness ==
    /\ pc = "animate"
    /\ Len(keyed_frames) = 2
    /\ Len(frames) = 2 * frames_per_keyed_frame
    /\ \E name \in KeyedNames(1) \cap KeyedNames(2) :
           KeyedEntry(1, name).count # KeyedEntry(2, name).count

----------------------------------------------------------------------------
\* C11: the ranks of a row are determined by its counts and its order alone.
\* When main() ranks a row (the step from "rank" to "read"), of two entities
\* of the row the one with the greater count gets the lower y_position, and
\* of two entities with equal counts the one earlier in the row gets the
\* lower y_position.
C11_RankStableAndDetermined ==
    [][(pc = "rank" /\ pc' = "read") =>
          LET row   == keyframes
              saved == keyed_frames'[Len(keyed_frames')].keyframes
              rank(n) == DictGet(saved, row[n].name).y_position
          IN \A a, b \in 1..Len(row) :
                 /\ row[a].count > row[b].count => rank(a) < rank(b)
                 /\ (a < b /\ row[a].count = row[b].count) => rank(a) < rank(b)]_vars

\* C11 witness: a row has just been ranked in which two entities have equal
\* counts, and the one that came first in the row (keyframes holds the ranked
\* row; ties keep the row's order) has the greater name and the lower rank,
\* while a third entity with a greater count is ranked above both.
C11_Witness ==
    /\ pc = "read"
    /\ Len(keyframes) = 3
    /\ Len(keyed_frames) >= 1
    /\ keyframes[1].count > keyframes[2].count
    /\ keyframes[2].count = keyframes[3].count
    /\ keyframes[2].name > keyframes[3].name
    /\ KeyedEntry(Len(keyed_frames), keyframes[2].name).y_position = 1
    /\ KeyedEntry(Len(keyed_frames), keyframes[3].name).y_position = 2

----------------------------------------------------------------------------
\* Properties of the spare colour

\* No row read so far has more than dp_tracked_number = col_count - 1 users.
AtMostTrackedRequested ==
    /\ Len(keyframes) <= dp_tracked_number
    /\ \A k \in 1..Len(keyed_frames) :
           Len(keyed_frames[k].keyframes) <= dp_tracked_number

\* C12: as long as no row has more than col_count - 1 users, finish_frame
\* never raises; when it is about to run, the colours it can hand out
\* (unreserved_colors and those of reserved_colors_last_frame, which it
\* returns first) are at least as many as the data points awaiting one; and
\* when it has run every Keyframe of the row has a colour.
C12_SparePoolNeverExhausted ==
    AtMostTrackedRequested =>
        /\ ~ (pc = "halted" /\ frame_num = None)
        /\ (pc = "get_color" /\ kf_i > Len(keyframes)) =>
               Len(color_tracker.data_points_awaiting_color) <=
                   Len(color_tracker.unreserved_colors) +
                   Len(color_tracker.reserved_colors_last_frame)
        /\ pc = "rank" => Colored = 1..Len(keyframes)

\* C12 witness: the third row of a file that keeps to dp_tracked_number has
\* been given its colours, and it holds a user the second row did not have,
\* while the second row held one the first did not have.
C12_Witness ==
    /\ pc = "rank"
    /\ AtMostTrackedRequested
    /\ Len(keyed_frames) = 2
    /\ Colored = 1..Len(keyframes)
    /\ \E n \in 1..Len(keyframes) : keyframes[n].name \notin KeyedNames(2)
    /\ KeyedNames(2) \ KeyedNames(1) # {}

\* The colours of the entities of the last completed frame.
LiveColors ==
    IF keyed_frames = <<>> THEN {}
    ELSE {KeyedEntry(Len(keyed_frames), name).color :
              name \in KeyedNames(Len(keyed_frames))}

\* C13: with col_count = dp_tracked_number + 1 colours and no row of more than
\* dp_tracked_number users, the first colour of the palette and the last are
\* never both colours of entities of the same frame.
C13_FirstAndLastNeverBothHeld ==
    (AtMostTrackedRequested /\ col_count >= 2) =>
        ~ (cols[1] \in LiveColors /\ cols[col_count] \in LiveColors)

----------------------------------------------------------------------------
\* C14: when finish_frame completes a row (the step from "get_color" to
\* "rank"), the colours left in reserved_colors_last_frame are those of the
\* previous frame's entities that the row does not have; they join the back
\* of unreserved_colors before any colour is handed out; the Keyframes without
\* a colour get, in the order of the row (the order of their get_color calls),
\* the colours from the front of that pool, one each; the rest of the pool
\* stays in unreserved_colors; and the other Keyframes keep their colour.
C14_ReturnThenHandOutInOrder ==
    [][(pc = "get_color" /\ pc' = "rank") =>
          LET Waiting(n) == keyframes[n].color = None
              new      == SelectSeq([n \in 1..Len(keyframes) |-> n], Waiting)
              released == DictValues(color_tracker.reserved_colors_last_frame)
              pool     == color_tracker.unreserved_colors \o released
              prev     == Len(keyed_frames)
              row      == {keyframes[n].name : n \in 1..Len(keyframes)}
          IN /\ Range(released) =
                    IF prev = 0 THEN {}
                    ELSE {KeyedEntry(prev, name).color : name \in KeyedNames(prev) \ row}
             /\ Len(new) <= Len(pool)
             /\ \A j \in 1..Len(new) : keyframes'[new[j]].color = pool[j]
             /\ color_tracker'.unreserved_colors = SubSeq(pool, Len(new) + 1, Len(pool))
             /\ \A n \in 1..Len(keyframes) :
                    ~ Waiting(n) => keyframes'[n].color = keyframes[n].color]_vars

\* C14 witness: finish_frame has completed the second row, in which a new
\* entity holds the colour that an entity of the first row, absent from the
\* second, held: the colour was returned and handed out in the same call.
C14_Witness ==
    /\ pc = "rank"
    /\ Len(keyed_frames) = 1
    /\ \E n \in 1..Len(keyframes) :
           /\ keyframes[n].name \notin KeyedNames(1)
           /\ \E name \in KeyedNames(1) :
                  /\ \A m \in 1..Len(keyframes) : keyframes[m].name # name
                  /\ KeyedEntry(1, name).color = keyframes[n].color

----------------------------------------------------------------------------
\* Properties of the data file bar_fetch writes

\* The users who have been in the top top_users of a snapshot up to the k-th:
\* tracked_users as it was when snapshot k was recorded.
WatchListAt(k) ==
    UNION {{user \in DictKeys(bf_keyed_frames[j].counter) :
                RankIn(bf_keyed_frames[j].counter, user) < top_users} : j \in 1..k}

\* C15 (as claimed): the line written for snapshot k has a value for exactly
\* the users on the watch-list at snapshot k, one each, and the value of a user
\* the snapshot's counter does not hold is 0.
C15_RowHoldsWatchListOfItsSnapshot ==
    bf_pc = "done" =>
        \A k \in 1..Len(bf_keyed_frames) :
            LET users == Tail(csv[1])
                row   == Tail(csv[k + 1])
            IN /\ Len(row) <= Len(users)
               /\ {users[n] : n \in 1..Len(row)} = WatchListAt(k)
               /\ Len(row) = Cardinality(WatchListAt(k))
               /\ \A n \in 1..Len(row) :
                      users[n] \notin DictKeys(bf_keyed_frames[k].counter) => row[n] = 0

----------------------------------------------------------------------------
\* Properties of entities with count 0

\* The entities of both keyed frames around dense frame n whose interpolated
\* count at n is 0.
ZeroAt(n) ==
    {name \in KeyedNames(K0(n)) \cap KeyedNames(K1(n)) :
        frames_per_keyed_frame * KeyedEntry(K0(n), name).count
        + (KeyedEntry(K1(n), name).count - KeyedEntry(K0(n), name).count) * Progress(n)
        = 0}

\* C16 (as claimed): no entry of a dense frame has count 0, and no bar of
\* size 0 is drawn.
C16_ZeroCountEntityHasNoEntry ==
    /\ \A n \in Filled :
           \A name \in DenseNames(n) : DenseEntry(n, name).count # 0
    /\ \A j \in 1..Len(drawn) :
           \A m \in 1..Len(drawn[j].axes.bar_sizes) : drawn[j].axes.bar_sizes[m] # 0

\* C16 (amended): an entity of both keyed frames around a dense frame whose
\* count in that frame is 0 is among the frame's entries, with count 0 and
\* the colour it has in both keyed frames; and animate_frame draws one bar for
\* every entry of the frame, of the entry's name, count, colour and position.
C16_ZeroCountEntityKeepsEntry ==
    /\ \A n \in Filled :
           \A name \in ZeroAt(n) :
               /\ name \in DenseNames(n)
               /\ DenseEntry(n, name).count = 0
               /\ DenseEntry(n, name).color = KeyedEntry(K0(n), name).color
               /\ DenseEntry(n, name).color = KeyedEntry(K1(n), name).color
    /\ \A j \in 1..Len(drawn) :
           LET entries == DictValues(frames[drawn[j].frame_num + 1].keyframes)
               axes    == drawn[j].axes
           IN /\ Len(axes.bar_sizes) = Len(entries)
              /\ \A m \in 1..Len(entries) :
                     /\ axes.labels[m] = entries[m].name
                     /\ axes.bar_sizes[m] = entries[m].count
                     /\ axes.cols[m] = entries[m].color
                     /\ axes.positions[m] = entries[m].y_position

\* C16 witness: a dense frame between two keyed frames has been drawn with a
\* bar of size 0 beside a bar of another size, for an entity whose count is 0
\* in the keyed frame before and positive in the keyed frame after.
C16_Witness ==
    /\ Len(keyed_frames) = 2
    /\ \E j \in 1..Len(drawn) :
           LET n == drawn[j].frame_num IN
           /\ K0(n) = 1
           /\ \E name \in ZeroAt(n) :
                  /\ KeyedEntry(2, name).count > 0
                  /\ DenseEntry(n, name).count = 0
           /\ \E m \in 1..Len(drawn[j].axes.bar_sizes) : drawn[j].axes.bar_sizes[m] = 0
           /\ \E m \in 1..Len(drawn[j].axes.bar_sizes) : drawn[j].axes.bar_sizes[m] # 0

----------------------------------------------------------------------------
\* Properties of the movement between positions

\* The distance between the positions of a name in dense frames m and n.
Moved(name, m, n) ==
    LET d == DenseEntry(n, name).y_position - DenseEntry(m, name).y_position
    IN IF d < 0 THEN 0 - d ELSE d

\* C17 (as claimed): on the step into the first dense frame of a new interval,
\* where the entity's target changes, its position moves by no more than it
\* moved on the step before.
C17_NoJumpAtKeyframeBoundary ==
    \A n \in Filled :
        (n >= 2 /\ n >= frames_per_keyed_frame /\ Progress(n) = 0) =>
            \A name \in DenseNames(n) \cap DenseNames(n - 1) \cap DenseNames(n - 2) :
                Moved(name, n - 1, n) <= Moved(name, n - 2, n - 1)

----------------------------------------------------------------------------
\* Properties of generating the dense frames

\* The entries that the keyed frames fix for dense frame n: those of the keyed
\* frame before it whose entity the keyed frame after it holds too, in their
\* order, the count moved towards the later count by the progress of n.
EntriesOf(n) ==
    LET Common(e) == e.k \in KeyedNames(K1(n))
        common    == SelectSeq(keyed_frames[K0(n)].keyframes, Common)
    IN [m \in 1..Len(common) |->
           [k |-> common[m].k,
            v |-> [common[m].v EXCEPT
                      !.count = frames_per_keyed_frame * @
                                + (KeyedEntry(K1(n), common[m].k).count - @) * Progress(n)]]]

\* C18: a step that generates a dense frame (for any index, whatever has been
\* generated before, the same index again included) leaves keyed_frames, the
\* ColorTracker and the last row's Keyframes as they are, and after it every
\* dense frame is either still empty or holds exactly the entries that
\* keyed_frames fix for its index.
C18_GenerationPureAndOrderFree ==
    [][(pc = "fill" /\ pc' = "fill") =>
          /\ keyed_frames' = keyed_frames
          /\ color_tracker' = color_tracker
          /\ keyframes' = keyframes
          /\ Len(frames') = Len(frames)
          /\ \A n \in 0..(Len(frames) - 1) :
                 \/ frames'[n + 1].keyframes = EntriesOf(n)
                 \/ (frames'[n + 1].keyframes = <<>> /\ frames[n + 1].keyframes = <<>>)]_vars

\* C18 witness: the last dense frame has been generated and holds entries
\* while the first, which the keyed frames give entries too, is still empty:
\* the frames are being generated out of order.
C18_Witness ==
    /\ pc = "fill"
    /\ Len(keyed_frames) = 2
    /\ frames[1].keyframes = <<>>
    /\ EntriesOf(0) # <<>>
    /\ frames[Len(frames)].keyframes # <<>>
    /\ frames[Len(frames)].keyframes = EntriesOf(Len(frames) - 1)
    /\ EntriesOf(Len(frames) - 1) # EntriesOf(1)

----------------------------------------------------------------------------
\* Properties of the animation

\* C19 (as claimed): for a data file of at least one row, animate_frame is
\* never asked for a frame past the end of frames (the animation does not end
\* in an IndexError), the frames it has drawn are 0, 1, 2, ... in this order,
\* each once, and when the animation is saved every dense frame has been drawn.
C19_EveryFrameRenderedOnce ==
    Len(keyed_frames) >= 1 =>
        /\ ~ (pc = "halted" /\ frame_num # None)
        /\ \A j \in 1..Len(drawn) :
               /\ drawn[j].frame_num = j - 1
               /\ drawn[j].frame_num < Len(frames)
        /\ pc = "saved" => Len(drawn) = Len(frames)

\* C20 (as claimed): in every frame drawn, the count label is drawn once for
\* each bar whose position is in 0 .. dp_display_number - 1, the bar at
\* position 0 included, at the bar's position, and for no other bar.
C20_LabelsForVisibleWindow ==
    \A j \in 1..Len(drawn) :
        LET axes    == drawn[j].axes
            visible == {m \in 1..Len(axes.positions) :
                           0 <= axes.positions[m] /\ axes.positions[m] < dp_display_number}
        IN /\ {axes.texts[m].y : m \in 1..Len(axes.texts)} =
                  {axes.positions[m] : m \in visible}
           /\ Len(axes.texts) = Cardinality(visible)

====
